---- MODULE Spec2Model ----
(***************************************************************************)
(* Model of HuskStandaloneSubmission.py: the line-oriented parser          *)
(* get_render_info, the pattern resolver parse_prim_pattern and the        *)
(* output planner determine_outputs.                                       *)
(*                                                                         *)
(* Python strings are modelled as sequences of one-character strings, so   *)
(* that os.path.split, str.split, str.strip and regular-expression search  *)
(* are computed on the characters.  A line of the usdcat dump is a record  *)
(* naming its shape (the text each shape stands for is listed with the     *)
(* line vocabulary); the tests the parser applies to a line (strip,        *)
(* ' = ' in line, re.search) are operators on that record.  Exceptions the *)
(* code raises end the run with their name in outcome.                     *)
(***************************************************************************)
EXTENDS Integers, Sequences, FiniteSets, TLC

VARIABLES
    result,             \* the RenderInfo under construction / returned
    attr_type,          \* Python runtime type of each RenderInfo attribute
    accum_path,         \* get_render_info: accum_path
    accum_depth,        \* get_render_info: accum_depth
    finished_metadata,  \* get_render_info: finished_metadata
    resume,             \* get_render_info: resume (<<>> or <<pattern, terminator>>)
    line,               \* the line the loop body ran on last (NoLine before the first)
    nlines,             \* number of lines of usdcat.splitlines() consumed
    outcome,            \* "running", "returned" or the name of the exception raised
    last_name,          \* observer: name of the most recent def line at each depth
    prev_depth,         \* observer: depth of the previous def line (-1 before the first)
    nested,             \* observer: first def at depth 0, no depth increase above 1
    block,              \* observer: the multi-line block opened last (NoBlock if none)
    pass_value,         \* determine_outputs: pass_value
    settings_value,     \* determine_outputs: settings_value
    output_value,       \* determine_outputs: output_value
    outputs,            \* determine_outputs: its return value or the error raised
    patterns,           \* parse_prim_pattern: patterns
    prim_type,          \* parse_prim_pattern: prim_type
    matched,            \* parse_prim_pattern: its return value or the error raised
    usd_file_paths,     \* submit_pressed: usd_file_paths, each with what is on disk
    job_index,          \* submit_pressed: job_index (-1 before the loop)
    pass_items,         \* submit_pressed: the pass keys of outputs.items() not yet submitted
    results,            \* submit_pressed: results
    submitted,          \* the jobs handed to ClientUtils.ExecuteCommandAndGetOutput
    submit_state        \* submit_pressed: "idle", "pressed", "running", "rejected",
                        \* "done" or "raised"

vars == <<result, attr_type, accum_path, accum_depth, finished_metadata, resume,
          line, nlines, outcome, last_name, prev_depth, nested, block,
          pass_value, settings_value, output_value, outputs,
          patterns, prim_type, matched,
          usd_file_paths, job_index, pass_items, results, submitted, submit_state>>

parser_vars == <<result, attr_type, accum_path, accum_depth, finished_metadata,
                 resume, line, nlines, outcome, last_name, prev_depth, nested, block>>

planner_vars == <<pass_value, settings_value, output_value, outputs>>

resolver_vars == <<patterns, prim_type, matched>>

submit_vars == <<usd_file_paths, job_index, pass_items, results, submitted, submit_state>>

\* the variables of the callers of get_render_info
caller_vars == <<planner_vars, resolver_vars, submit_vars>>

-----------------------------------------------------------------------------
(* Bounds *)

MaxDefLines == 5        \* lines fed to the parser in SpecDef
MaxMetaLines == 4       \* lines fed to the parser in SpecMeta
MaxResumeLines == 6     \* lines fed to the parser in SpecResume
MaxDepth == 2           \* deepest indentation level of a def line (4 * MaxDepth spaces)
MaxPrims == 2           \* RenderPass / RenderSettings prims of a graph given to the planner
MaxPatternLen == 3      \* characters of a selection string given to the resolver
MaxBucketLen == 2       \* paths of a kind bucket given to the resolver
MaxFiles == 2           \* scene files selected for one submission

-----------------------------------------------------------------------------
(* Strings as character sequences *)

RECURSIVE Join(_, _)
\* sep.join(parts)
Join(parts, sep) ==
    IF parts = <<>> THEN <<>>
    ELSE IF Len(parts) = 1 THEN parts[1]
    ELSE parts[1] \o sep \o Join(Tail(parts), sep)

RECURSIVE RStripSep(_)
\* head.rstrip('/')
RStripSep(s) ==
    IF s # <<>> /\ s[Len(s)] = "/" THEN RStripSep(SubSeq(s, 1, Len(s) - 1)) ELSE s

AllSep(s) == \A i \in 1..Len(s) : s[i] = "/"

\* p.rfind('/') + 1
RFindSep(p) ==
    IF \E i \in 1..Len(p) : p[i] = "/"
    THEN CHOOSE i \in 1..Len(p) : p[i] = "/" /\ \A j \in (i+1)..Len(p) : p[j] # "/"
    ELSE 0

\* os.path.split(p)[0]
PathSplitHead(p) ==
    LET head == SubSeq(p, 1, RFindSep(p))
    IN  IF head # <<>> /\ ~AllSep(head) THEN RStripSep(head) ELSE head

RECURSIVE SplitTimes(_, _)
\* for _ in range(n): accum_path, _ = os.path.split(accum_path)
SplitTimes(p, n) == IF n = 0 THEN p ELSE SplitTimes(PathSplitHead(p), n - 1)

-----------------------------------------------------------------------------
(* RenderInfo *)

ListFields == {"ProductName", "RenderVar", "RenderProduct", "RenderSettings", "RenderPass"}
ScalarFields == {"startTimeCode", "endTimeCode", "renderSettingsPrimPath"}
Fields == ScalarFields \cup ListFields \cup {"relationships"}

\* '/Render/rendersettings'
DefaultSettingsPath ==
    <<"/", "R", "e", "n", "d", "e", "r", "/",
      "r", "e", "n", "d", "e", "r", "s", "e", "t", "t", "i", "n", "g", "s">>

\* RenderInfo(): the dataclass defaults
RenderInfo ==
    [startTimeCode |-> <<"1">>,
     endTimeCode |-> <<"1">>,
     renderSettingsPrimPath |-> DefaultSettingsPath,
     ProductName |-> <<>>,
     RenderVar |-> <<>>,
     RenderProduct |-> <<>>,
     RenderSettings |-> <<>>,
     RenderPass |-> <<>>,
     relationships |-> <<>>]

\* the Python type each attribute holds after construction
RenderInfoTypes ==
    [f \in Fields |->
        IF f \in {"startTimeCode", "endTimeCode"} THEN "int"
        ELSE IF f = "renderSettingsPrimPath" THEN "str"
        ELSE IF f = "relationships" THEN "dict" ELSE "list"]

\* hasattr(result, key), for the keys and kinds of the line vocabulary
HasAttr(key) == key \in Fields

-----------------------------------------------------------------------------
(* Lines of the usdcat dump.                                               *)
(*   [k |-> "close"]                          )                            *)
(*   [k |-> "meta", key, value, eqs]          key = value  (eqs: number of *)
(*                                            ' = ' in the line, 1 or 2)   *)
(*   [k |-> "def", indent, type, name]        <indent spaces>def type "name" *)
(*   [k |-> "rel", rtype, value]              rel rtype = <value>, or      *)
(*                                            rel rtype = [  /  = {        *)
(*   [k |-> "entry", path]                    <path>,                      *)
(*   [k |-> "mapentry", lit]                  1: "lit",                    *)
(*   [k |-> "punct", ch]                      a line holding only ch       *)
(*   [k |-> "junk"]                           text matching no pattern     *)

NoLine == [k |-> "none"]

Range(s) == {s[i] : i \in 1..Len(s)}

\* the characters of the line that the model varies (names, values, paths)
Payload(l) ==
    CASE l.k = "meta" -> l.value
      [] l.k = "def" -> l.name
      [] l.k = "rel" -> l.value
      [] l.k = "entry" -> l.path
      [] l.k = "mapentry" -> l.lit
      [] l.k = "punct" -> <<l.ch>>
      [] OTHER -> <<>>

\* line.strip() == ')'
IsCloser(l) == l.k = "close"

\* len(line.lstrip().split(' = ')) - 1
EqCount(l) ==
    CASE l.k = "meta" -> l.eqs
      [] l.k = "rel" -> 1
      [] OTHER -> 0

\* key of  key, value = line.lstrip().split(' = ')
Key(l) == IF l.k = "meta" THEN l.key ELSE "rel " \o l.rtype

RECURSIVE LStripQuote(_)
LStripQuote(s) == IF s # <<>> /\ Head(s) = "\"" THEN LStripQuote(Tail(s)) ELSE s

RECURSIVE RStripQuote(_)
RStripQuote(s) ==
    IF s # <<>> /\ s[Len(s)] = "\"" THEN RStripQuote(SubSeq(s, 1, Len(s) - 1)) ELSE s

\* value.strip('"')
StripQuote(s) == RStripQuote(LStripQuote(s))

\* re.search(r'def (?P<type>.+) "(?P<name>.+)"', line)
DefMatch(l) == l.k = "def"

\* (len(line) - len(line.lstrip())) // 4
CurrentDepth(l) == l.indent \div 4

RelTypes == {"products", "renderSource", "orderedVars", "productName.timeSamples"}

\* re.search(r'(?:rel|token) (?P<type>...) = <?(?P<path>[^>]+)>?', line)
RelMatch(l) == l.k = "rel" /\ l.rtype \in RelTypes

\* resume[1] in line
ContainsTerm(l, term) == term \in Range(Payload(l))

ArrayPattern == "<(.*)>"
MapPattern == "\\d+: \"(.+)\","

\* re.search(resume[0], line): [ok, group1]
Search(pattern, l) ==
    IF pattern = ArrayPattern /\ l.k = "entry" THEN [ok |-> TRUE, g |-> l.path]
    ELSE IF pattern = ArrayPattern /\ l.k = "rel" /\ ~(l.value \in {<<"[">>, <<"{">>})
        THEN [ok |-> TRUE, g |-> l.value]
    ELSE IF pattern = MapPattern /\ l.k = "mapentry" THEN [ok |-> TRUE, g |-> l.lit]
    ELSE [ok |-> FALSE, g |-> <<>>]

-----------------------------------------------------------------------------
(* FrameUtils.ReplaceFrameNumberWithPrintFPadding: the last run of digits  *)
(* of the literal becomes a printf padding marker of the same width; a run *)
(* that already follows '%' is a marker and is left alone.                 *)

Digits == {"0", "1", "2", "3", "4", "5", "6", "7", "8", "9"}
DigitChar == <<"1", "2", "3", "4", "5", "6", "7", "8", "9">>

ReplaceFrameNumberWithPrintFPadding(s) ==
    IF ~(\E i \in 1..Len(s) : s[i] \in Digits) THEN s
    ELSE LET e == CHOOSE i \in 1..Len(s) :
                      s[i] \in Digits /\ \A j \in (i+1)..Len(s) : s[j] \notin Digits
             b == CHOOSE i \in 1..e :
                      /\ \A j \in i..e : s[j] \in Digits
                      /\ (i = 1 \/ s[i-1] \notin Digits)
         IN  IF b > 1 /\ s[b-1] = "%" THEN s
             ELSE SubSeq(s, 1, b - 1) \o <<"%", "0", DigitChar[e - b + 1], "d">>
                  \o SubSeq(s, e + 1, Len(s))

-----------------------------------------------------------------------------
(* Observers: what the lines read so far were, kept for stating the claims *)

Depths == 0..MaxDepth

NoBlock == [k |-> "none"]

\* the def line l has been handled by the prim branch
ObserveDef(l) ==
    /\ last_name' = [last_name EXCEPT ![CurrentDepth(l)] = l.name]
    /\ prev_depth' = CurrentDepth(l)
    /\ nested' = (nested /\ CurrentDepth(l) <= prev_depth + 1)

\* line l follows the metadata preamble; opens is TRUE when the parser, in
\* normal mode, took l as the opening line of an array or map block.  The
\* block runs to the first line that contains its terminator, or to the next
\* opening line the parser takes.
ObserveBlock(l, opens) ==
    block' =
        IF opens
            THEN [k |-> "open", term |-> IF l.value = <<"[">> THEN "]" ELSE "}",
                  key |-> accum_path, before |-> result, lines |-> <<>>]
        ELSE IF block.k = "open" /\ ContainsTerm(l, block.term)
            THEN [block EXCEPT !.k = "closed"]
        ELSE IF block.k = "open"
            THEN [block EXCEPT !.lines = Append(@, l)]
        ELSE NoBlock

-----------------------------------------------------------------------------
(* get_render_info *)

\* submit_pressed has not been called
SubmitIdle ==
    /\ usd_file_paths = <<>>
    /\ job_index = -1
    /\ pass_items = <<>>
    /\ results = [success |-> <<>>, fail |-> <<>>]
    /\ submitted = <<>>
    /\ submit_state = "idle"

Init ==
    /\ result = RenderInfo
    /\ attr_type = RenderInfoTypes
    /\ accum_path = <<>>
    /\ accum_depth = -1
    /\ finished_metadata = FALSE
    /\ resume = <<>>
    /\ line = NoLine
    /\ nlines = 0
    /\ outcome = "running"
    /\ last_name = [d \in Depths |-> <<>>]
    /\ prev_depth = -1
    /\ nested = TRUE
    /\ block = NoBlock
    /\ pass_value = <<>>
    /\ settings_value = <<>>
    /\ output_value = <<>>
    /\ outputs = [status |-> "none"]
    /\ patterns = <<>>
    /\ prim_type = "RenderPass"
    /\ matched = [status |-> "none"]
    /\ SubmitIdle

\* the loop takes the next line of usdcat.splitlines()
Take(l, max) ==
    /\ outcome = "running"
    /\ nlines < max
    /\ line' = l
    /\ nlines' = nlines + 1

\* the metadata branch of the loop body
MetadataLine(l, max) ==
    /\ Take(l, max)
    /\ ~finished_metadata
    /\ finished_metadata' = IsCloser(l)
    /\ IF IsCloser(l) \/ EqCount(l) = 0
           THEN UNCHANGED <<result, attr_type, outcome>>
       ELSE IF EqCount(l) # 1
           THEN /\ outcome' = "ValueError"
                /\ UNCHANGED <<result, attr_type>>
       ELSE IF HasAttr(Key(l))
           THEN /\ result' = [result EXCEPT ![Key(l)] = StripQuote(l.value)]
                /\ attr_type' = [attr_type EXCEPT ![Key(l)] = "str"]
                /\ UNCHANGED outcome
       ELSE UNCHANGED <<result, attr_type, outcome>>
    /\ UNCHANGED <<accum_path, accum_depth, resume, last_name, prev_depth, nested, block>>
    /\ UNCHANGED caller_vars

\* accum_path after the depth bookkeeping of a def line
NewAccumPath(l) ==
    IF CurrentDepth(l) > accum_depth
    THEN accum_path \o <<"/">> \o l.name
    ELSE SplitTimes(accum_path, accum_depth - CurrentDepth(l) + 1) \o <<"/">> \o l.name

\* the prim branch of the loop body
DefLine(l, max) ==
    /\ Take(l, max)
    /\ finished_metadata /\ resume = <<>>
    /\ DefMatch(l)
    /\ accum_path' = NewAccumPath(l)
    /\ accum_depth' = IF CurrentDepth(l) > accum_depth THEN CurrentDepth(l)
                       ELSE accum_depth - (accum_depth - CurrentDepth(l))
    /\ IF ~HasAttr(l.type)
           THEN UNCHANGED <<result, outcome>>
       ELSE IF attr_type[l.type] = "list"
           THEN /\ result' = [result EXCEPT ![l.type] = Append(@, NewAccumPath(l))]
                /\ UNCHANGED outcome
       ELSE /\ outcome' = "AttributeError"
            /\ UNCHANGED result
    /\ ObserveDef(l)
    /\ ObserveBlock(l, FALSE)
    /\ UNCHANGED <<attr_type, finished_metadata, resume>>
    /\ UNCHANGED caller_vars

\* a in b, for Python strings
IsSubstr(a, b) == \E i \in 0..(Len(b) - Len(a)) : SubSeq(b, i + 1, i + Len(a)) = a

\* accum_path in result.relationships
HasRel(path) ==
    IF attr_type["relationships"] = "dict" THEN path \in DOMAIN result.relationships
    ELSE IsSubstr(path, result.relationships)

\* mutant of AppendRel: the target is put in front of the list
AppendRelFront(rels, path, target) ==
    [q \in DOMAIN rels |-> IF q = path THEN <<target>> \o rels[q] ELSE rels[q]]

\* result.relationships[accum_path].append(target)
AppendRel(rels, path, target) ==
    [q \in DOMAIN rels |-> IF q = path THEN Append(rels[q], target) ELSE rels[q]]

\* result.relationships[accum_path] = []
NewRel(rels, path) ==
    [q \in DOMAIN rels \cup {path} |-> IF q = path THEN <<>> ELSE rels[q]]

\* mutant of ResumeAfterMiss: a line that does not match is skipped
ResumeAfterMissStay(r) == r

\* resume after a line that the sub-pattern does not match
ResumeAfterMiss(r) == <<>>

\* mutant of ResumeAfterMatch: the map block keeps matching entries
ResumeAfterMatchKeep(r) == r

\* resume after a matched line: a map block skips to its terminator
ResumeAfterMatch(r) == IF r[2] = "}" THEN <<"skip", r[2]>> ELSE r

\* the resume branch of the loop body
ResumeLine(l, max) ==
    /\ Take(l, max)
    /\ finished_metadata /\ resume # <<>>
    /\ IF ContainsTerm(l, resume[2])
           THEN /\ resume' = <<>>
                /\ UNCHANGED <<result, outcome>>
       ELSE IF resume[1] = "skip"
           THEN UNCHANGED <<resume, result, outcome>>
       ELSE IF ~Search(resume[1], l).ok
           THEN /\ resume' = ResumeAfterMiss(resume)
                /\ UNCHANGED <<result, outcome>>
       ELSE LET matched_path ==
                    IF resume[2] = "}"
                    THEN ReplaceFrameNumberWithPrintFPadding(Search(resume[1], l).g)
                    ELSE Search(resume[1], l).g
            IN  IF resume[2] = "}" /\ attr_type["ProductName"] # "list"
                    THEN /\ outcome' = "AttributeError"
                         /\ UNCHANGED <<result, resume>>
                ELSE IF attr_type["relationships"] # "dict"
                    THEN /\ outcome' = "TypeError"
                         /\ UNCHANGED <<result, resume>>
                ELSE /\ result' =
                            [result EXCEPT
                                !.ProductName =
                                    IF resume[2] = "}" THEN Append(@, matched_path) ELSE @,
                                !.relationships = AppendRel(@, accum_path, matched_path)]
                     /\ resume' = ResumeAfterMatch(resume)
                     /\ UNCHANGED outcome
    /\ ObserveBlock(l, FALSE)
    /\ UNCHANGED <<attr_type, accum_path, accum_depth, finished_metadata,
                   last_name, prev_depth, nested>>
    /\ UNCHANGED caller_vars

\* the relationship branch of the loop body
RelLine(l, max) ==
    /\ Take(l, max)
    /\ finished_metadata /\ resume = <<>>
    /\ ~DefMatch(l) /\ RelMatch(l)
    /\ IF attr_type["relationships"] # "dict" /\ ~HasRel(accum_path)
           THEN /\ outcome' = "TypeError"
                /\ UNCHANGED <<result, resume>>
       ELSE LET rels == IF HasRel(accum_path) THEN result.relationships
                        ELSE NewRel(result.relationships, accum_path)
            IN  IF l.value = <<"[">>
                    THEN /\ resume' = <<ArrayPattern, "]">>
                         /\ result' = [result EXCEPT !.relationships = rels]
                         /\ UNCHANGED outcome
                ELSE IF l.value = <<"{">>
                    THEN /\ resume' = <<MapPattern, "}">>
                         /\ result' = [result EXCEPT !.relationships = rels]
                         /\ UNCHANGED outcome
                ELSE IF attr_type["relationships"] # "dict"
                    THEN /\ outcome' = "TypeError"
                         /\ UNCHANGED <<result, resume>>
                ELSE /\ result' = [result EXCEPT
                                      !.relationships = AppendRel(rels, accum_path, l.value)]
                     /\ UNCHANGED <<resume, outcome>>
    /\ ObserveBlock(l, resume' # <<>>)
    /\ UNCHANGED <<attr_type, accum_path, accum_depth, finished_metadata,
                   last_name, prev_depth, nested>>
    /\ UNCHANGED caller_vars

\* a line after the metadata that is neither a def nor a relationship line
OtherLine(l, max) ==
    /\ Take(l, max)
    /\ finished_metadata /\ resume = <<>>
    /\ ~DefMatch(l) /\ ~RelMatch(l)
    /\ ObserveBlock(l, FALSE)
    /\ UNCHANGED <<result, attr_type, accum_path, accum_depth, finished_metadata,
                   resume, outcome, last_name, prev_depth, nested>>
    /\ UNCHANGED caller_vars

\* the input is exhausted: return result
Return ==
    /\ outcome = "running"
    /\ outcome' = "returned"
    /\ UNCHANGED <<result, attr_type, accum_path, accum_depth, finished_metadata,
                   resume, line, nlines, last_name, prev_depth, nested, block>>
    /\ UNCHANGED caller_vars

-----------------------------------------------------------------------------
(* SpecDef: the parser on dumps of def lines *)

Names == {<<"A">>, <<"B">>}

CloseLine == [k |-> "close"]

DefLines ==
    {[k |-> "def", indent |-> 4 * d, type |-> "RenderPass", name |-> n] :
        d \in Depths, n \in Names}

DefVocabulary == {CloseLine} \cup DefLines

NextDef ==
    \/ \E l \in DefVocabulary : MetadataLine(l, MaxDefLines)
    \/ \E l \in DefVocabulary : DefLine(l, MaxDefLines)
    \/ \E l \in DefVocabulary : OtherLine(l, MaxDefLines)
    \/ Return

SpecDef == Init /\ [][NextDef]_vars

RECURSIVE PathOfNames(_, _)
\* '/' followed by the '/'-joined names of the most recent def line at depths 0..d
PathOfNames(names, d) ==
    IF d < 0 THEN <<>> ELSE PathOfNames(names, d - 1) \o <<"/">> \o names[d]

\* C1: after every def line of a sequence that starts at depth 0 and never
\* deepens by more than one level, the accumulated path is '/' followed by the
\* names of the most recent def line at each depth 0..d, and it is the path
\* recorded last in the kind bucket.
C1_DepthReconstruction ==
    (nested /\ prev_depth >= 0 /\ outcome = "running") =>
        /\ accum_path = PathOfNames(last_name, prev_depth)
        /\ result.RenderPass # <<>>
        /\ result.RenderPass[Len(result.RenderPass)] = accum_path

\* the list holds no element twice
NoDuplicates(list) ==
    \A i, j \in 1..Len(list) : list[i] = list[j] => i = j

\* C14: in every returned graph each of the RenderSettings, RenderProduct,
\* RenderVar and RenderPass buckets holds any given path at most once, even
\* when several def lines of the input reconstruct to the same path and kind.
C14_BucketsHoldNoDuplicates ==
    outcome = "returned" =>
        \A kind \in ListFields \ {"ProductName"} : NoDuplicates(result[kind])

-----------------------------------------------------------------------------
(* SpecMeta: the parser on dumps with metadata lines and odd prim kinds *)

MetaLine(key, value, eqs) == [k |-> "meta", key |-> key, value |-> value, eqs |-> eqs]
PrimLine(indent, type, name) == [k |-> "def", indent |-> indent, type |-> type, name |-> name]
RelationLine(rtype, value) == [k |-> "rel", rtype |-> rtype, value |-> value]
EntryLine(path) == [k |-> "entry", path |-> path]
MapEntryLine(lit) == [k |-> "mapentry", lit |-> lit]
PunctLine(ch) == [k |-> "punct", ch |-> ch]
JunkLine == [k |-> "junk"]

TargetA == <<"/", "a">>
TargetB == <<"/", "b">>

MetaVocabulary ==
    {CloseLine, JunkLine,
     MetaLine("startTimeCode", <<"5">>, 1),
     MetaLine("doc", <<"5">>, 2),
     MetaLine("defaultPrim", <<"\"", "R", "\"">>, 1),
     MetaLine("renderSettingsPrimPath", <<"\"", "/", "R", "/", "s", "\"">>, 1),
     MetaLine("RenderPass", <<"5">>, 1),
     MetaLine("relationships", <<"5">>, 1),
     PrimLine(0, "RenderPass", <<"A">>),
     PrimLine(0, "startTimeCode", <<"A">>),
     PrimLine(0, "Scope", <<"A">>),
     RelationLine("products", TargetA),
     RelationLine("orderedVars", <<"[">>),
     EntryLine(TargetA)}

NextMeta ==
    \/ \E l \in MetaVocabulary : MetadataLine(l, MaxMetaLines)
    \/ \E l \in MetaVocabulary : ResumeLine(l, MaxMetaLines)
    \/ \E l \in MetaVocabulary : DefLine(l, MaxMetaLines)
    \/ \E l \in MetaVocabulary : RelLine(l, MaxMetaLines)
    \/ \E l \in MetaVocabulary : OtherLine(l, MaxMetaLines)
    \/ Return

SpecMeta == Init /\ [][NextMeta]_vars

-----------------------------------------------------------------------------
(* SpecResume: the parser on dumps with array and map blocks *)

ResumeVocabulary ==
    {CloseLine, JunkLine,
     PrimLine(0, "RenderProduct", <<"A">>),
     RelationLine("orderedVars", <<"[">>),
     RelationLine("productName.timeSamples", <<"{">>),
     RelationLine("products", TargetA),
     RelationLine("orderedVars", TargetA),
     EntryLine(TargetA),
     EntryLine(TargetB),
     MapEntryLine(<<"o", ".", "7">>),
     MapEntryLine(<<"o", ".", "8", "2">>),
     PunctLine("]"),
     PunctLine("}")}

NextResume ==
    \/ \E l \in ResumeVocabulary : MetadataLine(l, MaxResumeLines)
    \/ \E l \in ResumeVocabulary : ResumeLine(l, MaxResumeLines)
    \/ \E l \in ResumeVocabulary : DefLine(l, MaxResumeLines)
    \/ \E l \in ResumeVocabulary : RelLine(l, MaxResumeLines)
    \/ \E l \in ResumeVocabulary : OtherLine(l, MaxResumeLines)
    \/ Return

SpecResume == Init /\ [][NextResume]_vars

-----------------------------------------------------------------------------
(* parse_prim_pattern *)

Separators == {",", " "}

RECURSIVE SplitRuns(_, _, _)
\* re.split(r'[,\s]+', patterns), scanning from position i with the piece cur
SplitRuns(s, i, cur) ==
    IF i > Len(s) THEN <<cur>>
    ELSE IF s[i] \in Separators
        THEN IF i > 1 /\ s[i-1] \in Separators
             THEN SplitRuns(s, i + 1, cur)
             ELSE <<cur>> \o SplitRuns(s, i + 1, <<>>)
    ELSE SplitRuns(s, i + 1, Append(cur, s[i]))

\* pattern.replace('*', '.*') with '/' put in front when missing; in the
\* regex a "*" element stands for '.*' and a "." element for any character
RegexString(pattern) ==
    IF pattern # <<>> /\ Head(pattern) = "/" THEN pattern ELSE <<"/">> \o pattern

RECURSIVE MatchHere(_, _)
\* the regex matches a prefix of s
MatchHere(regex, s) ==
    IF regex = <<>> THEN TRUE
    ELSE IF Head(regex) = "*"
        THEN \E k \in 0..Len(s) : MatchHere(Tail(regex), SubSeq(s, k + 1, Len(s)))
    ELSE IF s = <<>> THEN FALSE
    ELSE IF Head(regex) = "." \/ Head(regex) = Head(s)
        THEN MatchHere(Tail(regex), Tail(s))
    ELSE FALSE

\* mutant of RegexSearch: re.match, the regex is tried at the start of the path only
RegexMatchStart(regex, path) == MatchHere(regex, path)

\* regex.search(path) is not None
RegexSearch(regex, path) ==
    \E i \in 0..Len(path) : MatchHere(regex, SubSeq(path, i + 1, Len(path)))

RECURSIVE Filter(_, _)
\* list(filter(regex.search, valid_paths))
Filter(regex, paths) ==
    IF paths = <<>> THEN <<>>
    ELSE (IF RegexSearch(regex, Head(paths)) THEN <<Head(paths)>> ELSE <<>>)
         \o Filter(regex, Tail(paths))

RECURSIVE ExtendAll(_, _)
\* result.extend(...) for each pattern in turn
ExtendAll(pats, paths) ==
    IF pats = <<>> THEN <<>>
    ELSE Filter(RegexString(Head(pats)), paths) \o ExtendAll(Tail(pats), paths)

\* re.compile(regex_string) raises re.error: of the characters the
\* selections are drawn from, only an unclosed "(" makes the expression invalid
CompileFails(regex) == "(" \in Range(regex)

\* the call raises re.error at the first pattern that does not compile
parse_prim_pattern_raises(patterns_v) ==
    LET pats == SplitRuns(patterns_v, 1, <<>>)
    IN  \E i \in 1..Len(pats) : CompileFails(RegexString(pats[i]))

\* the list the call returns when every pattern compiles
parse_prim_pattern(patterns_v, render_info, prim_type_v) ==
    ExtendAll(SplitRuns(patterns_v, 1, <<>>), render_info[prim_type_v])

-----------------------------------------------------------------------------
(* determine_outputs *)

Whitespace == {" "}

RECURSIVE LStrip(_)
LStrip(s) == IF s # <<>> /\ Head(s) \in Whitespace THEN LStrip(Tail(s)) ELSE s

RECURSIVE RStrip(_)
RStrip(s) ==
    IF s # <<>> /\ s[Len(s)] \in Whitespace THEN RStrip(SubSeq(s, 1, Len(s) - 1)) ELSE s

\* x.strip()
Strip(s) == RStrip(LStrip(s))

RECURSIVE SplitComma(_, _, _)
\* output_value.split(','), scanning from position i with the piece cur
SplitComma(s, i, cur) ==
    IF i > Len(s) THEN <<cur>>
    ELSE IF s[i] = "," THEN <<cur>> \o SplitComma(s, i + 1, <<>>)
    ELSE SplitComma(s, i + 1, Append(cur, s[i]))

\* [x.strip() for x in output_value.split(',')] if output_value else []
Productnames(value) ==
    IF value = <<>> THEN <<>>
    ELSE LET parts == SplitComma(value, 1, <<>>)
         IN  [i \in 1..Len(parts) |-> Strip(parts[i])]

\* mutant of PassPrims: the synthetic '' pass is used only when no selection is given
PassPrimsNoFallback(render_info, value) ==
    IF value # <<>> THEN parse_prim_pattern(value, render_info, "RenderPass") ELSE <<<<>>>>

\* pass_prims, after the synthetic '' pass is added to an empty list
PassPrims(render_info, value) ==
    LET pass_prims == IF value # <<>>
                      THEN parse_prim_pattern(value, render_info, "RenderPass")
                      ELSE <<>>
    IN  IF pass_prims = <<>> THEN <<<<>>>> ELSE pass_prims

\* settings_prims
SettingsPrims(render_info, value) ==
    IF value # <<>> THEN parse_prim_pattern(value, render_info, "RenderSettings") ELSE <<>>

\* mutant of OverrideSettings: the override is dropped
OverrideSettingsDropped(pass_settings, settings_prims) == pass_settings

\* pass_settings after 'if settings_prims: pass_settings = settings_prims'
OverrideSettings(pass_settings, settings_prims) ==
    IF settings_prims # <<>> THEN settings_prims ELSE pass_settings

\* a lookup render_info.relationships[path] raises KeyError
Missing(render_info, path) == path \notin DOMAIN render_info.relationships

RECURSIVE Flatten(_)
Flatten(lists) == IF lists = <<>> THEN <<>> ELSE Head(lists) \o Flatten(Tail(lists))

\* mutant of Keep: every target is kept
KeepAll(targets, names) == targets

RECURSIVE Keep(_, _)
\* the targets that are in render_info.ProductName, in order
Keep(targets, names) ==
    IF targets = <<>> THEN <<>>
    ELSE (IF Head(targets) \in Range(names) THEN <<Head(targets)>> ELSE <<>>)
         \o Keep(Tail(targets), names)

\* one iteration of 'for pass_prim in pass_prims': the entry stored under
\* pass_prim, or the KeyError of the first lookup that fails
PassEntry(render_info, pass_prim, settings_prims, productnames) ==
    IF pass_prim # <<>> /\ Missing(render_info, pass_prim) THEN [err |-> TRUE]
    ELSE
    LET derived == IF pass_prim = <<>> THEN <<render_info.renderSettingsPrimPath>>
                   ELSE render_info.relationships[pass_prim]
        pass_settings == OverrideSettings(derived, settings_prims)
    IN  IF productnames # <<>>
            THEN [err |-> FALSE, settings |-> pass_settings, outs |-> productnames]
        ELSE IF \E i \in 1..Len(pass_settings) : Missing(render_info, pass_settings[i])
            THEN [err |-> TRUE]
        ELSE LET products == Flatten([i \in 1..Len(pass_settings) |->
                                         render_info.relationships[pass_settings[i]]])
             IN  IF \E i \in 1..Len(products) : Missing(render_info, products[i])
                     THEN [err |-> TRUE]
                 ELSE [err |-> FALSE, settings |-> pass_settings,
                       outs |-> Keep(Flatten([i \in 1..Len(products) |->
                                        render_info.relationships[products[i]]]),
                                     render_info.ProductName)]

RECURSIVE Dedup(_)
\* the keys of a dict filled in list order
Dedup(keys) ==
    IF keys = <<>> THEN <<>>
    ELSE LET front == Dedup(SubSeq(keys, 1, Len(keys) - 1))
         IN  IF keys[Len(keys)] \in Range(front) THEN front
             ELSE Append(front, keys[Len(keys)])

determine_outputs(render_info, pass_v, settings_v, output_v) ==
    LET pass_prims == PassPrims(render_info, pass_v)
        settings_prims == SettingsPrims(render_info, settings_v)
        productnames == Productnames(output_v)
        entry(p) == PassEntry(render_info, p, settings_prims, productnames)
    IN  IF \/ pass_v # <<>> /\ parse_prim_pattern_raises(pass_v)
           \/ settings_v # <<>> /\ parse_prim_pattern_raises(settings_v)
            THEN [status |-> "re.error"]
        ELSE IF \E i \in 1..Len(pass_prims) : entry(pass_prims[i]).err
            THEN [status |-> "KeyError"]
        ELSE [status |-> "ok",
              keys |-> Dedup(pass_prims),
              val |-> [p \in Range(pass_prims) |->
                          <<entry(p).settings, entry(p).outs>>]]

-----------------------------------------------------------------------------
(* SpecPlan: determine_outputs on the graphs of a bounded family of dumps. *)
(* Every graph of the family is what get_render_info returns for a dump    *)
(* with the prims under one root prim "R": passes /R/p, /R/pq, ..,         *)
(* settings /R/s, /R/sq, .., products /R/x and /R/y, each with or without  *)
(* its relationship lines.                                                 *)

RECURSIVE Suffixed(_, _)
\* base followed by n characters "q"
Suffixed(base, n) == IF n = 0 THEN base ELSE Append(Suffixed(base, n - 1), "q")

PassPath(i) == Suffixed(<<"/", "R", "/", "p">>, i - 1)
SettingsPath(i) == Suffixed(<<"/", "R", "/", "s">>, i - 1)
ProductX == <<"/", "R", "/", "x">>
ProductY == <<"/", "R", "/", "y">>
VarPath == <<"/", "R", "/", "x", "/", "v">>
NameX == ReplaceFrameNumberWithPrintFPadding(<<"a", ".", "7">>)
NameY == ReplaceFrameNumberWithPrintFPadding(<<"b", ".", "7">>)

Absent == <<"absent">>

\* the renderSource lists a pass may have recorded (Absent: no such line)
SourceOptions == {Absent, <<SettingsPath(1)>>, <<SettingsPath(1), SettingsPath(2)>>}
\* the products lists a settings prim may have recorded
ProductsOptions == {Absent, <<ProductX>>, <<ProductX, ProductY>>}
\* the lists the two products may have recorded
XOptions == {Absent, <<VarPath, NameX>>, <<NameX>>}
YOptions == {Absent, <<NameY>>}

\* the relationship dict of a dump whose prims recorded the chosen lists
RelationshipsOf(np, src, ns, prod, x, y) ==
    LET keys == {PassPath(i) : i \in {j \in 1..np : src[j] # Absent}}
                \cup {SettingsPath(i) : i \in {j \in 1..ns : prod[j] # Absent}}
                \cup (IF x # Absent THEN {ProductX} ELSE {})
                \cup (IF y # Absent THEN {ProductY} ELSE {})
    IN  [q \in keys |->
            IF q = ProductX THEN x
            ELSE IF q = ProductY THEN y
            ELSE IF \E i \in 1..np : q = PassPath(i)
                THEN src[CHOOSE i \in 1..np : q = PassPath(i)]
            ELSE prod[CHOOSE i \in 1..ns : q = SettingsPath(i)]]

Graphs ==
    {[RenderInfo EXCEPT
        !.renderSettingsPrimPath = dflt,
        !.RenderPass = [i \in 1..np |-> PassPath(i)],
        !.RenderSettings = [i \in 1..ns |-> SettingsPath(i)],
        !.RenderProduct = <<ProductX, ProductY>>,
        !.RenderVar = <<VarPath>>,
        !.ProductName = (IF x # Absent THEN <<NameX>> ELSE <<>>)
                        \o (IF y # Absent THEN <<NameY>> ELSE <<>>),
        !.relationships = RelationshipsOf(np, src, ns, prod, x, y)] :
     np \in 0..MaxPrims, ns \in 0..MaxPrims,
     src \in [1..MaxPrims -> SourceOptions], prod \in [1..MaxPrims -> ProductsOptions],
     x \in XOptions, y \in YOptions,
     dflt \in {DefaultSettingsPath, SettingsPath(1)}}

PassValues == {<<>>, <<"p">>, <<"p", "q">>, <<"z">>, <<"/", "R", "/", "p", "q", ",", "p">>}
SettingsValues == {<<>>, <<"s">>, <<"s", "q", " ", "*">>, <<"z">>}
OutputValues == {<<>>, <<"a", ",", " ", "b", " ">>}

InitPlan ==
    /\ result \in Graphs
    /\ attr_type = RenderInfoTypes
    /\ accum_path = <<>>
    /\ accum_depth = -1
    /\ finished_metadata = TRUE
    /\ resume = <<>>
    /\ line = NoLine
    /\ nlines = 0
    /\ outcome = "returned"
    /\ last_name = [d \in Depths |-> <<>>]
    /\ prev_depth = -1
    /\ nested = TRUE
    /\ block = NoBlock
    /\ pass_value = <<>>
    /\ settings_value = <<>>
    /\ output_value = <<>>
    /\ outputs = [status |-> "none"]
    /\ patterns = <<>>
    /\ prim_type = "RenderPass"
    /\ matched = [status |-> "none"]
    /\ SubmitIdle

\* submit_pressed calls determine_outputs on the returned RenderInfo
DetermineOutputs(pv, sv, ov) ==
    /\ outcome = "returned"
    /\ outputs.status = "none"
    /\ pass_value' = pv
    /\ settings_value' = sv
    /\ output_value' = ov
    /\ outputs' = determine_outputs(result, pv, sv, ov)
    /\ UNCHANGED <<parser_vars, resolver_vars, submit_vars>>

NextPlan ==
    \E pv \in PassValues, sv \in SettingsValues, ov \in OutputValues :
        DetermineOutputs(pv, sv, ov)

SpecPlan == InitPlan /\ [][NextPlan]_vars

-----------------------------------------------------------------------------
(* SpecPattern: parse_prim_pattern on bounded selections and buckets.  The *)
(* graphs are what get_render_info returns for a dump with RenderPass      *)
(* prims f, fh and h under one root prim "R", in any order and possibly     *)
(* repeated.                                                               *)

PathF == <<"/", "R", "/", "f">>
PathFH == <<"/", "R", "/", "f", "h">>
PathH == <<"/", "R", "/", "h">>

RECURSIVE SeqsUpTo(_, _)
\* the sequences of at most n elements of S
SeqsUpTo(S, n) ==
    IF n = 0 THEN {<<>>}
    ELSE LET shorter == SeqsUpTo(S, n - 1)
         IN  shorter \cup {Append(q, x) : q \in shorter, x \in S}

Buckets == SeqsUpTo({PathF, PathFH, PathH}, MaxBucketLen)

PatternChars == {"f", "h", "/", "*", ".", "(", ",", " "}

Selections == SeqsUpTo(PatternChars, MaxPatternLen)

InitPattern ==
    /\ \E b \in Buckets : result = [RenderInfo EXCEPT !.RenderPass = b]
    /\ attr_type = RenderInfoTypes
    /\ accum_path = <<>>
    /\ accum_depth = -1
    /\ finished_metadata = TRUE
    /\ resume = <<>>
    /\ line = NoLine
    /\ nlines = 0
    /\ outcome = "returned"
    /\ last_name = [d \in Depths |-> <<>>]
    /\ prev_depth = -1
    /\ nested = TRUE
    /\ block = NoBlock
    /\ pass_value = <<>>
    /\ settings_value = <<>>
    /\ output_value = <<>>
    /\ outputs = [status |-> "none"]
    /\ patterns = <<>>
    /\ prim_type = "RenderPass"
    /\ matched = [status |-> "none"]
    /\ SubmitIdle

\* a call parse_prim_pattern(sel, render_info, kind) on the returned RenderInfo
ParsePrimPattern(sel, kind) ==
    /\ outcome = "returned"
    /\ matched.status = "none"
    /\ patterns' = sel
    /\ prim_type' = kind
    /\ matched' = IF parse_prim_pattern_raises(sel) THEN [status |-> "re.error"]
                  ELSE [status |-> "ok", val |-> parse_prim_pattern(sel, result, kind)]
    /\ UNCHANGED <<parser_vars, planner_vars, submit_vars>>

\* one call per behaviour
NextPattern ==
    /\ matched.status = "none"
    /\ \E sel \in Selections, kind \in {"RenderPass", "RenderSettings"} :
          ParsePrimPattern(sel, kind)

SpecPattern == InitPattern /\ [][NextPattern]_vars

-----------------------------------------------------------------------------
(* submit_pressed *)

\* os.path.basename(p)
Basename(p) == SubSeq(p, RFindSep(p) + 1, Len(p))

MissingFileMessage == "USD file doesn't exist"
SuccessOutput == "Result=Success"
FailOutput == "Result=Fail"

\* 'success' if 'Result=Success' in result else 'fail'
ResultKind(output) == IF output = SuccessOutput THEN "success" ELSE "fail"

\* results[kind][name] = value
Record(res, kind, name, value) ==
    [res EXCEPT ![kind] =
        [n \in DOMAIN res[kind] \cup {name} |-> IF n = name THEN value ELSE res[kind][n]]]

\* job_name_suffix
JobNameSuffix(pass_prim) ==
    IF pass_prim # <<>> THEN <<"_">> \o Basename(pass_prim) ELSE <<>>

\* the checks before the loop: no file selected, or an end frame below the
\* start frame, shows a message box and returns
Start(valid_range) ==
    /\ submit_state = "pressed"
    /\ submit_state' = IF usd_file_paths = <<>> \/ ~valid_range THEN "rejected"
                        ELSE "running"
    /\ UNCHANGED <<usd_file_paths, job_index, pass_items, results, submitted>>
    /\ UNCHANGED <<parser_vars, planner_vars, resolver_vars>>

\* one iteration of the loop over the files, up to the loop over
\* outputs.items(); an exception of get_render_info or determine_outputs is
\* not caught and leaves submit_pressed
NextFile ==
    /\ submit_state = "running"
    /\ pass_items = <<>>
    /\ job_index + 1 < Len(usd_file_paths)
    /\ job_index' = job_index + 1
    /\ LET file == usd_file_paths[job_index + 2]
           outs == determine_outputs(file.dump.info, pass_value, settings_value,
                                     output_value)
       IN  IF ~file.exists
               THEN /\ results' = Record(results, "fail", Basename(file.path),
                                         MissingFileMessage)
                    /\ UNCHANGED <<result, outputs, pass_items, submit_state>>
           ELSE IF file.dump.raises
               THEN /\ submit_state' = "raised"
                    /\ UNCHANGED <<result, outputs, pass_items, results>>
           ELSE /\ result' = file.dump.info
                /\ outputs' = outs
                /\ IF outs.status = "ok"
                       THEN pass_items' = outs.keys /\ UNCHANGED submit_state
                       ELSE submit_state' = "raised" /\ UNCHANGED pass_items
                /\ UNCHANGED results
    /\ UNCHANGED <<usd_file_paths, submitted>>
    /\ UNCHANGED <<attr_type, accum_path, accum_depth, finished_metadata, resume,
                   line, nlines, outcome, last_name, prev_depth, nested, block>>
    /\ UNCHANGED <<pass_value, settings_value, output_value, resolver_vars>>

\* one iteration of the loop over outputs.items(): the job files are written,
\* the job is submitted and its output is stored under job_name
SubmitJob(output) ==
    /\ submit_state = "running"
    /\ pass_items # <<>>
    /\ LET job_name == Basename(usd_file_paths[job_index + 1].path)
           pass_prim == Head(pass_items)
       IN  /\ submitted' = Append(submitted,
                                  [Name |-> job_name \o JobNameSuffix(pass_prim),
                                   job_index |-> job_index,
                                   pass_prim |-> pass_prim,
                                   output |-> output])
           /\ results' = Record(results, ResultKind(output), job_name, output)
    /\ pass_items' = Tail(pass_items)
    /\ UNCHANGED <<usd_file_paths, job_index, submit_state>>
    /\ UNCHANGED <<parser_vars, planner_vars, resolver_vars>>

\* after the loop: the results are formatted and shown
ShowResults ==
    /\ submit_state = "running"
    /\ pass_items = <<>>
    /\ job_index + 1 = Len(usd_file_paths)
    /\ submit_state' = "done"
    /\ UNCHANGED <<usd_file_paths, job_index, pass_items, results, submitted>>
    /\ UNCHANGED <<parser_vars, planner_vars, resolver_vars>>

-----------------------------------------------------------------------------
(* SpecSubmit: submit_pressed on bounded batches of scene files.  A file   *)
(* is its path, whether it is on disk, and what get_render_info does on    *)
(* it: raise (usdcat fails, or the parser raises) or return a graph.       *)

\* a dump with the passes /R/p and /R/pq, both rendering the settings /R/s
TwoPassGraph ==
    [RenderInfo EXCEPT
        !.renderSettingsPrimPath = SettingsPath(1),
        !.RenderPass = <<PassPath(1), PassPath(2)>>,
        !.RenderSettings = <<SettingsPath(1)>>,
        !.RenderProduct = <<ProductX, ProductY>>,
        !.RenderVar = <<VarPath>>,
        !.ProductName = <<NameX>>,
        !.relationships =
            RelationshipsOf(2, [i \in 1..2 |-> <<SettingsPath(1)>>],
                            1, [i \in 1..1 |-> <<ProductX>>],
                            <<VarPath, NameX>>, Absent)]

\* a dump without passes whose layer names the settings /R/s
NoPassGraph ==
    [TwoPassGraph EXCEPT
        !.RenderPass = <<>>,
        !.relationships =
            RelationshipsOf(0, <<>>, 1, [i \in 1..1 |-> <<ProductX>>],
                            <<VarPath, NameX>>, Absent)]

\* a dump whose pass /R/p has no renderSource line and whose layer names no
\* settings prim: determine_outputs raises KeyError on it
UnplannableGraph ==
    [RenderInfo EXCEPT
        !.RenderPass = <<PassPath(1)>>,
        !.RenderProduct = <<ProductX, ProductY>>,
        !.RenderVar = <<VarPath>>]

Returns(graph) == [raises |-> FALSE, info |-> graph]
Raises == [raises |-> TRUE]

File(path, exists, dump) == [path |-> path, exists |-> exists, dump |-> dump]

FileKinds ==
    {File(<<"d", "/", "a">>, FALSE, Raises),
     File(<<"d", "/", "a">>, TRUE, Returns(TwoPassGraph)),
     File(<<"e", "/", "a">>, TRUE, Returns(NoPassGraph)),
     File(<<"d", "/", "b">>, TRUE, Returns(NoPassGraph)),
     File(<<"d", "/", "c">>, TRUE, Raises),
     File(<<"d", "/", "u">>, TRUE, Returns(UnplannableGraph))}

Batches == SeqsUpTo(FileKinds, MaxFiles)

InitSubmit ==
    /\ result = RenderInfo
    /\ attr_type = RenderInfoTypes
    /\ accum_path = <<>>
    /\ accum_depth = -1
    /\ finished_metadata = TRUE
    /\ resume = <<>>
    /\ line = NoLine
    /\ nlines = 0
    /\ outcome = "returned"
    /\ last_name = [d \in Depths |-> <<>>]
    /\ prev_depth = -1
    /\ nested = TRUE
    /\ block = NoBlock
    /\ pass_value \in {<<>>, <<"p">>}
    /\ settings_value = <<>>
    /\ output_value = <<>>
    /\ outputs = [status |-> "none"]
    /\ patterns = <<>>
    /\ prim_type = "RenderPass"
    /\ matched = [status |-> "none"]
    /\ usd_file_paths \in Batches
    /\ job_index = -1
    /\ pass_items = <<>>
    /\ results = [success |-> <<>>, fail |-> <<>>]
    /\ submitted = <<>>
    /\ submit_state = "pressed"

NextSubmit ==
    \/ \E valid_range \in BOOLEAN : Start(valid_range)
    \/ NextFile
    \/ \E output \in {SuccessOutput, FailOutput} : SubmitJob(output)
    \/ ShowResults

SpecSubmit == InitSubmit /\ [][NextSubmit]_vars

-----------------------------------------------------------------------------
(* Claims about determine_outputs, checked under SpecPlan *)

Called == outputs.status # "none"
Returned == outputs.status = "ok"

ResolvedPasses == parse_prim_pattern(pass_value, result, "RenderPass")
ResolvedSettings == parse_prim_pattern(settings_value, result, "RenderSettings")

\* the settings a pass key gets without an override
DerivedSettings(k) ==
    IF k = <<>> THEN <<result.renderSettingsPrimPath>> ELSE result.relationships[k]

\* C2: determine_outputs never fails on a relationship source that has no
\* entry in the relationship mapping: every call returns a mapping.
C2_MissingSourceReturns == Called => Returned

\* C3: with a non-empty outputOverride the call returns, for every graph, a
\* mapping whose output list is, for every pass, the trimmed comma-split
\* entries of the override.
C3_OutputShortCircuit ==
    (Called /\ output_value # <<>>) =>
        /\ Returned
        /\ \A k \in DOMAIN outputs.val : outputs.val[k][2] = Productnames(output_value)

\* C4 as stated: with a non-empty settingsSelection, the settings list of
\* every pass is the list the selection resolves to.
C4_OverrideAlwaysWins ==
    (Returned /\ settings_value # <<>>) =>
        \A k \in DOMAIN outputs.val : outputs.val[k][1] = ResolvedSettings

\* C4 amended: with a non-empty settingsSelection that resolves to at least
\* one RenderSettings path, the settings list of every pass is the resolved
\* list; when it resolves to no path the pass's own settings (its
\* renderSource targets, or renderSettingsPrimPath for the '' pass) are kept.
C4_OverrideWinsWhenResolved ==
    (Returned /\ settings_value # <<>>) =>
        \A k \in DOMAIN outputs.val :
            outputs.val[k][1] =
                IF ResolvedSettings # <<>> THEN ResolvedSettings ELSE DerivedSettings(k)

C4_Witness ==
    /\ Returned /\ settings_value # <<>> /\ ResolvedSettings # <<>>
    /\ \E k \in DOMAIN outputs.val :
          /\ k # <<>>
          /\ DerivedSettings(k) # ResolvedSettings
          /\ outputs.val[k][1] = ResolvedSettings

\* C5 as stated: with a passSelection the keys are the paths it resolves to,
\* and the '' key appears exactly when no passSelection is supplied.
C5_EmptyKeyOnlyWithoutSelection ==
    Returned =>
        /\ pass_value # <<>> => DOMAIN outputs.val = Range(ResolvedPasses)
        /\ (<<>> \in DOMAIN outputs.val) <=> (pass_value = <<>>)

\* C5 amended: with a passSelection that resolves to at least one RenderPass
\* path the keys are exactly the resolved paths; the '' key appears exactly
\* when no passSelection is supplied or it resolves to no path, it is then
\* the only key, and unless a settingsSelection resolves to a path it is
\* mapped to the single settings path renderSettingsPrimPath.
C5_CandidatePasses ==
    Returned =>
        /\ (pass_value # <<>> /\ ResolvedPasses # <<>>) =>
              DOMAIN outputs.val = Range(ResolvedPasses)
        /\ (<<>> \in DOMAIN outputs.val) <=> (pass_value = <<>> \/ ResolvedPasses = <<>>)
        /\ (<<>> \in DOMAIN outputs.val) => DOMAIN outputs.val = {<<>>}
        /\ (<<>> \in DOMAIN outputs.val /\ (settings_value = <<>> \/ ResolvedSettings = <<>>))
              => outputs.val[<<>>][1] = <<result.renderSettingsPrimPath>>

C5_Witness ==
    /\ Returned /\ pass_value # <<>>
    /\ Len(ResolvedPasses) >= 2
    /\ DOMAIN outputs.val = Range(ResolvedPasses)

RECURSIVE NamesBelow(_, _)
\* visiting the paths in order and, below each, its relationship targets in
\* order down to the given number of levels: the targets of the last level
\* that are in the ProductName bucket
NamesBelow(paths, levels) ==
    IF levels = 0
    THEN SelectSeq(paths, LAMBDA n : n \in Range(result.ProductName))
    ELSE Flatten([i \in 1..Len(paths) |->
                     NamesBelow(result.relationships[paths[i]], levels - 1)])

\* C15: when no outputOverride is supplied and every looked-up path has a
\* relationship entry, the output list of a pass is the sequence obtained by
\* visiting its settings paths in order, each settings path's targets in
\* order and each such target's own targets in order, keeping exactly the
\* targets that are in the ProductName bucket, with no reordering and no
\* deduplication.
C15_TraversalOrder ==
    (Returned /\ output_value = <<>>) =>
        \A k \in DOMAIN outputs.val :
            outputs.val[k][2] = NamesBelow(outputs.val[k][1], 2)

C15_Witness ==
    /\ Returned /\ output_value = <<>>
    /\ result.relationships[ProductX] = <<VarPath, NameX>>
    /\ \E k \in DOMAIN outputs.val :
          /\ outputs.val[k][1] = <<SettingsPath(2), SettingsPath(1), SettingsPath(2)>>
          /\ result.relationships[SettingsPath(1)] = <<ProductX>>
          /\ result.relationships[SettingsPath(2)] = <<ProductX, ProductY>>
          /\ outputs.val[k][2] = <<NameX, NameY, NameX, NameX, NameY>>

-----------------------------------------------------------------------------
(* Claims about the metadata preamble, checked under SpecMeta *)

\* C6: an input that ends without any line consisting solely of ')' does not
\* make get_render_info return a RenderInfo.
C6_UnclosedPreambleFails == outcome = "returned" => finished_metadata

\* C7: once a ')' line has closed the metadata preamble, the line loop never
\* raises, whatever the other lines contain.
C7_NeverRaisesOnceClosed == finished_metadata => outcome \in {"running", "returned"}

\* the step handles one more line of the dump while in metadata mode
MetadataStep == ~finished_metadata /\ nlines' = nlines + 1

\* C16: a line handled in metadata mode can change only the fields
\* startTimeCode, endTimeCode and renderSettingsPrimPath; the four kind
\* buckets, the ProductName bucket and the relationship mapping are left
\* unchanged, whatever the key of the line.
C16_MetadataChangesOnlyScalars ==
    [][MetadataStep =>
          \A f \in ListFields \cup {"relationships"} : result'[f] = result[f]]_vars

-----------------------------------------------------------------------------
(* Claims about resume mode, checked under SpecResume *)

\* the step handles one more line of the dump while in resume mode
ResumeStep == resume # <<>> /\ nlines' = nlines + 1

\* C8 as stated: in resume mode a line ends resume mode exactly when it
\* contains the configured terminator.
C8_OnlyTerminatorEndsResume ==
    [][ResumeStep => (resume' = <<>> <=> ContainsTerm(line', resume[2]))]_vars

\* C8 amended: in resume mode a line ends resume mode exactly when it
\* contains the configured terminator or, while entries are still being
\* matched (an array block, or a map block before its first matched entry),
\* when it does not match the sub-pattern; after the first matched entry of a
\* map block only a terminator line ends resume mode.
C8_TerminatorOrMissEndsResume ==
    [][ResumeStep =>
          (resume' = <<>> <=>
              \/ ContainsTerm(line', resume[2])
              \/ resume[1] # "skip" /\ ~Search(resume[1], line').ok)]_vars

\* a block is still open in the dump, a line of it did not match and the
\* parser is back in normal mode
C8_Witness ==
    /\ block.k = "open"
    /\ block.lines # <<>>
    /\ line = JunkLine
    /\ resume = <<>>

\* the relationship list of the prim that opened the block, as it was when
\* the opening line was read
ListBefore ==
    IF block.key \in DOMAIN block.before.relationships
    THEN block.before.relationships[block.key] ELSE <<>>

\* everything but the opening prim's relationship list is as it was when the
\* opening line was read
OnlyOpenerListChanged ==
    /\ DOMAIN result.relationships = DOMAIN block.before.relationships \cup {block.key}
    /\ \A q \in DOMAIN block.before.relationships \ {block.key} :
          result.relationships[q] = block.before.relationships[q]
    /\ \A f \in (ListFields \ {"ProductName"}) \cup ScalarFields :
          result[f] = block.before[f]

\* C9: an array block '[' of n '<path>' lines closed by a ']' line appends
\* exactly those n paths, in file order, to the relationship list of the prim
\* that opened the block and to no other list, and the parser is back in
\* normal mode after the ']' line.
C9_ArrayResume ==
    (/\ block.k = "closed" /\ block.term = "]"
     /\ \A i \in 1..Len(block.lines) : block.lines[i].k = "entry") =>
        /\ result.relationships[block.key] =
              ListBefore \o [i \in 1..Len(block.lines) |-> block.lines[i].path]
        /\ OnlyOpenerListChanged
        /\ result.ProductName = block.before.ProductName
        /\ resume = <<>>

C9_Witness ==
    /\ block.k = "closed" /\ block.term = "]"
    /\ block.key = <<"/", "A">>
    /\ Len(block.lines) = 2
    /\ block.lines[1] = EntryLine(TargetB) /\ block.lines[2] = EntryLine(TargetA)
    /\ result.relationships[block.key] = <<TargetB, TargetA>>

\* the normalized literals of the entry lines of the block, in file order
RECURSIVE MapEntries(_)
MapEntries(lines) ==
    IF lines = <<>> THEN <<>>
    ELSE (IF Head(lines).k = "mapentry"
          THEN <<ReplaceFrameNumberWithPrintFPadding(Head(lines).lit)>> ELSE <<>>)
         \o MapEntries(Tail(lines))

\* a map block '{' .. '}' has been read that holds no def or relationship line
MapBlockClosed ==
    /\ block.k = "closed" /\ block.term = "}"
    /\ \A i \in 1..Len(block.lines) : ~DefMatch(block.lines[i]) /\ ~RelMatch(block.lines[i])

\* C10 as stated: every entry line between '{' and the '}' line is normalized
\* and appended to the opening prim's relationship list and to the
\* ProductName bucket, so k entry lines add k entries to each.
C10_EveryMapEntryRecorded ==
    MapBlockClosed =>
        /\ result.ProductName = block.before.ProductName \o MapEntries(block.lines)
        /\ result.relationships[block.key] = ListBefore \o MapEntries(block.lines)

\* C10 amended: of a map block '{' .. '}' that holds no def or relationship
\* line, only the first line is matched: when it is an entry line its
\* normalized literal is appended once to the opening prim's relationship
\* list and once to the ProductName bucket; every later line adds nothing.
C10_FirstMapEntryRecorded ==
    MapBlockClosed =>
        LET first == IF block.lines = <<>> THEN <<>> ELSE MapEntries(<<block.lines[1]>>)
        IN  /\ result.ProductName = block.before.ProductName \o first
            /\ result.relationships[block.key] = ListBefore \o first
            /\ OnlyOpenerListChanged
            /\ resume = <<>>

C10_Witness ==
    /\ MapBlockClosed
    /\ Len(MapEntries(block.lines)) = 2
    /\ block.key = <<"/", "A">>
    /\ result.ProductName = <<<<"o", ".", "%", "0", "1", "d">>>>
    /\ result.relationships[block.key] = result.ProductName

\* the RenderProduct paths whose relationship list holds a productName literal
ProductsWithLiteral ==
    {p \in Range(result.RenderProduct) \cap DOMAIN result.relationships :
        \E i \in 1..Len(result.relationships[p]) :
            result.relationships[p][i] \in Range(result.ProductName)}

\* C11: in every returned graph, for every RenderProduct path for which a
\* productName literal was recorded, the last element of the product's
\* relationship list is that literal, whatever the order of the orderedVars
\* and productName lines of the prim block.
C11_LiteralIsLast ==
    outcome = "returned" =>
        \A p \in ProductsWithLiteral :
            result.relationships[p][Len(result.relationships[p])]
                \in Range(result.ProductName)

-----------------------------------------------------------------------------
(* Claims about parse_prim_pattern, checked under SpecPattern *)

\* the pattern with '/' put in front when it does not start with one
Anchored(pattern) ==
    IF pattern # <<>> /\ Head(pattern) = "/" THEN pattern ELSE <<"/">> \o pattern

RECURSIVE StarPieces(_, _, _)
\* the runs of characters between the '*' of a pattern
StarPieces(s, i, cur) ==
    IF i > Len(s) THEN <<cur>>
    ELSE IF s[i] = "*" THEN <<cur>> \o StarPieces(s, i + 1, <<>>)
    ELSE StarPieces(s, i + 1, Append(cur, s[i]))

\* the piece is in the path at offset i; with dot, a '.' of the piece stands
\* for any one character
OccursAt(piece, path, i, dot) ==
    /\ i + Len(piece) <= Len(path)
    /\ \A j \in 1..Len(piece) : piece[j] = path[i + j] \/ (dot /\ piece[j] = ".")

RECURSIVE InOrder(_, _, _, _)
\* the pieces are in the path one after the other, the first at or after from
InOrder(pieces, path, from, dot) ==
    IF pieces = <<>> THEN TRUE
    ELSE LET offsets == {i \in from..Len(path) : OccursAt(Head(pieces), path, i, dot)}
         IN  /\ offsets # {}
             /\ InOrder(Tail(pieces), path,
                        (CHOOSE i \in offsets : \A j \in offsets : i <= j)
                            + Len(Head(pieces)),
                        dot)

\* the path contains the root-anchored pattern, '*' being any character sequence
Contains(pattern, path, dot) ==
    InOrder(StarPieces(Anchored(pattern), 1, <<>>), path, 0, dot)

\* for each pattern of the selection in order, the paths of the bucket, in
\* bucket order, that contain it
Selected(dot) ==
    LET pats == SplitRuns(patterns, 1, <<>>)
    IN  Flatten([i \in 1..Len(pats) |->
                    SelectSeq(result[prim_type], LAMBDA q : Contains(pats[i], q, dot))])

\* C12 as stated: the returned list is the concatenation, over the patterns in
\* pattern order, of the bucket paths (in bucket order) that contain the
\* root-anchored pattern, '*' being the only character with a special meaning.
C12_ContainsPattern == matched.status = "ok" => matched.val = Selected(FALSE)

\* C12 amended: the returned list is that concatenation when the anchored
\* pattern is read as a regular expression: '*' is any character sequence and
\* every other character keeps its regular-expression meaning, so '.' stands
\* for any one character; a path appears once per pattern that matches it.
C12_ContainsRegex == matched.status = "ok" => matched.val = Selected(TRUE)

C12_Witness ==
    /\ matched.status = "ok"
    /\ patterns = <<"f", ",", "*">>
    /\ prim_type = "RenderPass"
    /\ result.RenderPass = <<PathFH, PathH>>
    /\ matched.val = <<PathFH, PathFH, PathH>>

\* C13: for every selection string, parse_prim_pattern applied to a graph
\* whose bucket for the requested kind is empty returns the empty list and
\* never raises.
C13_EmptyBucketReturnsEmpty ==
    (matched.status # "none" /\ result[prim_type] = <<>>) =>
        matched = [status |-> "ok", val |-> <<>>]

-----------------------------------------------------------------------------
(* Claims about submit_pressed, checked under SpecSubmit *)

\* processing the file fails: it is not on disk, extracting its render info
\* raises, or planning its outputs raises
ProcessingFails(file) ==
    \/ ~file.exists
    \/ file.dump.raises
    \/ determine_outputs(file.dump.info, pass_value, settings_value,
                         output_value).status # "ok"

\* C17: when processing one selected file fails, the loop is not abandoned:
\* the submission runs to its end, every failing file is then recorded in
\* results['fail'] and every other selected file has had its jobs submitted.
C17_BatchIsolation ==
    /\ submit_state # "raised"
    /\ submit_state = "done" =>
          \A i \in 1..Len(usd_file_paths) :
              IF ProcessingFails(usd_file_paths[i])
              THEN Basename(usd_file_paths[i].path) \in DOMAIN results.fail
              ELSE \E j \in 1..Len(submitted) : submitted[j].job_index = i - 1

\* the entries of results[kind] that hold the output of a submitted job
JobEntries(kind) ==
    {n \in DOMAIN results[kind] : results[kind][n] # MissingFileMessage}

\* C18: after the loop every submitted job is recorded under its own entry in
\* exactly one of results['success'] and results['fail']: the number of
\* recorded job entries equals the number of submitted jobs and no name
\* holds the outcome of more than one job.
C18_ResultAccounting ==
    submit_state = "done" =>
        /\ Cardinality(JobEntries("success")) + Cardinality(JobEntries("fail"))
              = Len(submitted)
        /\ JobEntries("success") \cap JobEntries("fail") = {}

====
